---------------------------- MODULE Spec2Model ----------------------------
(***************************************************************************)
(* Model of the agent repository: the search pipeline of                   *)
(* src/locationSearch.js (searchNearbyPlaces, findCheaperNearbySpots,      *)
(* calculateAffordabilityScore) and the messaging pipeline of              *)
(* src/photon.js (analyzeReceipt, handleMessage, the watcher callbacks and *)
(* the SIGINT handler).                                                    *)
(*                                                                         *)
(* JavaScript strings that the code inspects (includes, startsWith,        *)
(* toLowerCase) are sequences of one-character strings.  A value that may  *)
(* be undefined is a record [defined, s].                                  *)
(***************************************************************************)
EXTENDS Integers, Sequences, FiniteSets, TLC

VARIABLES
  \* ---- search pipeline (src/locationSearch.js)
  searchResults,   \* what dedalus.webSearch resolved to, or that it threw
  plainOut,        \* the value searchNearbyPlaces returned for searchResults
  affordOut,       \* the value findCheaperNearbySpots returned for searchResults
  scored,          \* findCheaperNearbySpots' mapped array, before the sort
  \* ---- receipt analyzer (src/photon.js, analyzeReceipt) taken alone
  aiCall,          \* the outcome of readFile and generateContent for one call
  analysis,        \* the outcome of analyzeReceipt for aiCall
  \* ---- messaging pipeline (src/photon.js)
  handlers,        \* one record per handleMessage invocation, in dispatch order
  watching,        \* the transport's poll loop is running
  sigintRegistered,\* process.on('SIGINT', ...) has run
  signals,         \* number of interrupt signals delivered
  stopCalls,       \* number of sdk.stopWatching() calls
  closeCalls,      \* number of sdk.close() calls
  closePending,    \* number of close() promises not yet settled
  proc             \* "running", "exited" (process.exit(0)) or "killed"

searchVars == <<searchResults, plainOut, affordOut, scored>>
analyzeVars == <<aiCall, analysis>>
msgVars == <<handlers, watching, sigintRegistered, signals, stopCalls,
             closeCalls, closePending, proc>>
vars == <<searchResults, plainOut, affordOut, scored, aiCall, analysis, handlers,
          watching, sigintRegistered, signals, stopCalls, closeCalls,
          closePending, proc>>

\* ------------------------------------------------------------------ bounds

\* Longest result list the search provider returns in the model.
MaxResults == 4

\* ----------------------------------------------------------------- strings

Undefined == [defined |-> FALSE, s |-> <<>>]

Str(chars) == [defined |-> TRUE, s |-> chars]

\* JavaScript's (x || y) for a string x that may be undefined: undefined and
\* the empty string are falsy.
Truthy(opt) == opt.defined /\ opt.s # <<>>

OrElse(opt, other) == IF Truthy(opt) THEN opt ELSE other

UpperCase ==
  <<"A","B","C","D","E","F","G","H","I","J","K","L","M",
    "N","O","P","Q","R","S","T","U","V","W","X","Y","Z">>

LowerCase ==
  <<"a","b","c","d","e","f","g","h","i","j","k","l","m",
    "n","o","p","q","r","s","t","u","v","w","x","y","z">>

toLowerCaseChar(c) ==
  IF \E i \in 1..Len(UpperCase) : UpperCase[i] = c
    THEN LowerCase[CHOOSE i \in 1..Len(UpperCase) : UpperCase[i] = c]
    ELSE c

\* String.prototype.toLowerCase, character by character.
toLowerCase(s) ==
  LET lowered[i \in 0..Len(s)] ==
        IF i = 0 THEN <<>> ELSE Append(lowered[i - 1], toLowerCaseChar(s[i]))
  IN lowered[Len(s)]

\* String.prototype.includes
includes(text, keyword) ==
  \E i \in 1..(Len(text) - Len(keyword) + 1) :
    SubSeq(text, i, i + Len(keyword) - 1) = keyword

\* String.prototype.startsWith
startsWith(text, prefix) ==
  /\ Len(text) >= Len(prefix)
  /\ SubSeq(text, 1, Len(prefix)) = prefix

\* ------------------------------------------------- calculateAffordabilityScore

affordableKeywords ==
  << <<"c","h","e","a","p">>,
     <<"b","u","d","g","e","t">>,
     <<"a","f","f","o","r","d","a","b","l","e">>,
     <<"d","i","s","c","o","u","n","t">>,
     <<"d","e","a","l">>,
     <<"s","a","v","e">>,
     <<"i","n","e","x","p","e","n","s","i","v","e">>,
     <<"l","o","w"," ","p","r","i","c","e">>,
     <<"b","a","r","g","a","i","n">>,
     <<"v","a","l","u","e">>,
     <<"e","c","o","n","o","m","i","c","a","l">>,
     <<"f","r","e","e">>,
     <<"s","a","l","e">>,
     <<"$">>,
     <<"u","n","d","e","r">>,
     <<"l","e","s","s"," ","t","h","a","n">> >>

expensiveKeywords ==
  << <<"l","u","x","u","r","y">>,
     <<"p","r","e","m","i","u","m">>,
     <<"e","x","p","e","n","s","i","v","e">>,
     <<"u","p","s","c","a","l","e">>,
     <<"h","i","g","h","-","e","n","d">>,
     <<"e","x","c","l","u","s","i","v","e">>,
     <<"g","o","u","r","m","e","t">>,
     <<"f","i","n","e"," ","d","i","n","i","n","g">> >>

\* The template literal result.title + " " + (result.snippet || "") + " " +
\* (result.description || ""), lower-cased.
scoreText(result) ==
  toLowerCase(result.title \o <<" ">> \o OrElse(result.snippet, Str(<<>>)).s
              \o <<" ">> \o OrElse(result.description, Str(<<>>)).s)

\* The forEach over affordableKeywords with a frequency count instead of the
\* presence test: every occurrence of a keyword adds its points.
affordablePointsPerOccurrence(text, n) ==
  LET occ(k) == Cardinality({i \in 1..(Len(text) - Len(k) + 1) :
                               SubSeq(text, i, i + Len(k) - 1) = k})
      sum[j \in 0..n] ==
        IF j = 0 THEN 0 ELSE sum[j - 1] + 2 * occ(affordableKeywords[j])
  IN sum[n]

\* affordableKeywords.forEach(keyword => { if (text.includes(keyword)) score += 2 })
\* over the first n keywords.
affordablePoints(text, n) ==
  LET sum[j \in 0..n] ==
        IF j = 0 THEN 0
        ELSE sum[j - 1] + (IF includes(text, affordableKeywords[j]) THEN 2 ELSE 0)
  IN sum[n]

\* expensiveKeywords.forEach(keyword => { if (text.includes(keyword)) score -= 3 })
expensivePoints(text, n) ==
  LET sum[j \in 0..n] ==
        IF j = 0 THEN 0
        ELSE sum[j - 1] - (IF includes(text, expensiveKeywords[j]) THEN 3 ELSE 0)
  IN sum[n]

calculateAffordabilityScore(result) ==
  LET text == scoreText(result)
  IN affordablePoints(text, Len(affordableKeywords))
       + expensivePoints(text, Len(expensiveKeywords))

\* ------------------------------------------------------------ ranking

\* Array.prototype.slice(0, 4): an off-by-one top-N.
sliceTop4(seq) == SubSeq(seq, 1, IF Len(seq) < 4 THEN Len(seq) ELSE 4)

\* Array.prototype.slice(0, 3)
sliceTop3(seq) == SubSeq(seq, 1, IF Len(seq) < 3 THEN Len(seq) ELSE 3)

\* An ascending comparator.
compareAscending(a, b) == a.affordabilityScore - b.affordabilityScore

\* (a, b) => b.affordabilityScore - a.affordabilityScore
compareFn(a, b) == b.affordabilityScore - a.affordabilityScore

\* Array.prototype.sort(compareFn): stable (ECMAScript 2019; the module uses
\* top-level await, so the engine is at least that recent).  x is placed
\* before the first element that compareFn orders strictly after it.
insertSorted(sorted, x) ==
  LET later == {i \in 1..Len(sorted) : compareFn(sorted[i], x) > 0}
      k == IF later = {} THEN Len(sorted) + 1
           ELSE CHOOSE i \in later : \A j \in later : i <= j
  IN SubSeq(sorted, 1, k - 1) \o <<x>> \o SubSeq(sorted, k, Len(sorted))

sort(seq) ==
  LET acc[j \in 0..Len(seq)] ==
        IF j = 0 THEN <<>> ELSE insertSorted(acc[j - 1], seq[j])
  IN acc[Len(seq)]

NoDescription ==
  Str(<<"N","o"," ","d","e","s","c","r","i","p","t","i","o","n"," ",
        "a","v","a","i","l","a","b","l","e">>)

\* The value searchNearbyPlaces returns once webSearch has settled.
searchNearbyPlaces(sr) ==
  IF sr.threw THEN [error |-> "Failed to search", spots |-> <<>>]
  ELSE IF sr.isNull \/ Len(sr.list) = 0
    THEN [error |-> "No results found for your query", spots |-> <<>>]
  ELSE LET top == sliceTop3(sr.list)
       IN [error |-> "",
           spots |-> [i \in 1..Len(top) |->
                        [rank |-> i,
                         name |-> top[i].title,
                         description |->
                           OrElse(top[i].snippet,
                                  OrElse(top[i].description, NoDescription)),
                         url |-> top[i].url]]]

\* searchResults.map(result => ({ name, description, url, affordabilityScore }))
scoredSpots(sr) ==
  LET mapped[i \in 0..Len(sr.list)] ==
        IF i = 0 THEN <<>>
        ELSE Append(mapped[i - 1],
               [name |-> sr.list[i].title,
                description |-> OrElse(sr.list[i].snippet, sr.list[i].description),
                url |-> sr.list[i].url,
                affordabilityScore |-> calculateAffordabilityScore(sr.list[i])])
  IN mapped[Len(sr.list)]

\* The value findCheaperNearbySpots returns once webSearch has settled, given
\* the mapped array (mapped) of its results.
findCheaperNearbySpots(sr, mapped) ==
  IF sr.threw
    THEN [error |-> "Failed to search for alternatives", alternatives |-> <<>>]
  ELSE IF sr.isNull \/ Len(sr.list) = 0
    THEN [error |-> "No results found", alternatives |-> <<>>]
  ELSE LET rankedSpots == sliceTop3(sort(mapped))
       IN [error |-> "",
           alternatives |-> [i \in 1..Len(rankedSpots) |->
                        [rank |-> i,
                         name |-> rankedSpots[i].name,
                         description |-> rankedSpots[i].description,
                         url |-> rankedSpots[i].url]]]

\* ------------------------------------------------ search pipeline: actions

Result(title, snippet, description, url) ==
  [title |-> title, snippet |-> snippet, description |-> description,
   url |-> url]

LuxuryCafe == <<"L","u","x","u","r","y"," ","C","a","f","e">>

BudgetDiner ==
  <<"B","u","d","g","e","t"," ","D","i","n","e","r"," ","$","5"," ",
    "m","e","a","l","s">>

CornerStore == <<"C","o","r","n","e","r"," ","S","t","o","r","e">>

\* The search results the provider draws from: the three titles of the
\* spec's example, a repeated keyword in two cases ("CHEAP cheap eats"), a
\* keyword that contains another ("Inexpensive"), a keyword that spans the
\* title and the snippet ("Go Low" + "price list"), and a second result
\* without any keyword.
ResultPool ==
  { Result(LuxuryCafe, Undefined, Undefined, "u1"),
    Result(BudgetDiner, Undefined, Undefined, "u2"),
    Result(CornerStore, Undefined, Undefined, "u3"),
    Result(<<"C","H","E","A","P"," ","c","h","e","a","p"," ","e","a","t","s">>,
           Str(<<>>), Str(<<"t","a","c","o","s">>), "u4"),
    Result(<<"I","n","e","x","p","e","n","s","i","v","e"," ","D","e","l","i">>,
           Undefined, Str(<<>>), "u5"),
    Result(<<"G","o"," ","L","o","w">>,
           Str(<<"p","r","i","c","e"," ","l","i","s","t">>), Undefined, "u6"),
    Result(<<"M","a","r","k","e","t">>, Undefined,
           Str(<<"o","p","e","n"," ","l","a","t","e">>), "u7") }

ResultLists == UNION {[1..n -> ResultPool] : n \in 0..MaxResults}

Pending == [settled |-> FALSE, threw |-> FALSE, isNull |-> FALSE, list |-> <<>>]

SearchOutcomes ==
  {[settled |-> TRUE, threw |-> TRUE, isNull |-> FALSE, list |-> <<>>],
   [settled |-> TRUE, threw |-> FALSE, isNull |-> TRUE, list |-> <<>>]}
  \cup {[settled |-> TRUE, threw |-> FALSE, isNull |-> FALSE, list |-> l] :
          l \in ResultLists}

PlainNotRun == [error |-> "not run", spots |-> <<>>]

AffordNotRun == [error |-> "not run", alternatives |-> <<>>]

InitSearch ==
  /\ searchResults = Pending
  /\ plainOut = PlainNotRun
  /\ affordOut = AffordNotRun
  /\ scored = <<>>

\* await dedalus.webSearch({ query, maxResults: 10 }) settles.
WebSearchSettles ==
  /\ ~searchResults.settled
  /\ \E o \in SearchOutcomes : searchResults' = o
  /\ UNCHANGED <<plainOut, affordOut, scored, analyzeVars, msgVars>>

SearchNearbyPlacesReturns ==
  /\ searchResults.settled
  /\ plainOut = PlainNotRun
  /\ plainOut' = searchNearbyPlaces(searchResults)
  /\ UNCHANGED <<searchResults, affordOut, scored, analyzeVars, msgVars>>

FindCheaperNearbySpotsReturns ==
  /\ searchResults.settled
  /\ affordOut = AffordNotRun
  /\ scored' = IF searchResults.threw \/ searchResults.isNull
                 THEN <<>> ELSE scoredSpots(searchResults)
  /\ affordOut' = findCheaperNearbySpots(searchResults, scored')
  /\ UNCHANGED <<searchResults, plainOut, analyzeVars, msgVars>>

\* ------------------------------------------------------- analyzeReceipt

\* A value JSON.parse can return, or the catch block's record.  type is
\* "object", "array", "null", "number" or "string"; the has* fields say
\* which of the properties error, items and total an object carries.
Json(type, hasError, error, hasItems, items, hasTotal, totalIsNumber, total) ==
  [type |-> type, hasError |-> hasError, error |-> error,
   hasItems |-> hasItems, items |-> items, hasTotal |-> hasTotal,
   totalIsNumber |-> totalIsNumber, total |-> total]

Primitive(type) == Json(type, FALSE, "", FALSE, <<>>, FALSE, FALSE, 0)

\* { error: message }
ErrorRecord(message) == Json("object", TRUE, message, FALSE, <<>>, FALSE, FALSE, 0)

\* { items: [...], total: cents / 100 }
SuccessRecord(items, total) ==
  Json("object", FALSE, "", TRUE, items, TRUE, TRUE, total)

\* One entry of items; amounts are in cents; priceIsNumber is FALSE for a
\* price the model wrote as a string ("3.50").
Item(name, quantity, priceIsNumber, price) ==
  [name |-> name, quantity |-> quantity, priceIsNumber |-> priceIsNumber,
   price |-> price]

Coffee == Item("Coffee", 2, TRUE, 350)

\* The text of a model response is a sequence of tokens: the code-fence
\* marker, the language tag "json", a line break, a blank, a run of prose,
\* or a whole JSON document named by its source text.
\* The code-fence marker: three grave accents.
Fence == "[fence]"

JsonDocuments ==
  {"{\"items\":[{\"name\":\"Coffee\",\"quantity\":2,\"price\":3.5}],\"total\":7}",
   "{\"items\":[],\"total\":0}",
   "{\"error\":\"Could not parse receipt\"}",
   "{\"error\":\"\"}",
   "{\"error\":\"unreadable\",\"items\":[],\"total\":0}",
   "{}",
   "null",
   "42",
   "{\"items\":[{\"name\":\"Coffee\",\"quantity\":2,\"price\":\"3.50\"}],\"total\":7}",
   "{\"items\":[{\"name\":\"Coffee\",\"quantity\":2,\"price\":3.5}]}"}

\* The value of each document under JSON.parse.
jsonValueOf(doc) ==
  CASE doc = "{\"items\":[{\"name\":\"Coffee\",\"quantity\":2,\"price\":3.5}],\"total\":7}"
         -> SuccessRecord(<<Coffee>>, 700)
    [] doc = "{\"items\":[],\"total\":0}" -> SuccessRecord(<<>>, 0)
    [] doc = "{\"error\":\"Could not parse receipt\"}"
         -> ErrorRecord("Could not parse receipt")
    [] doc = "{\"error\":\"\"}" -> ErrorRecord("")
    [] doc = "{\"error\":\"unreadable\",\"items\":[],\"total\":0}"
         -> Json("object", TRUE, "unreadable", TRUE, <<>>, TRUE, TRUE, 0)
    [] doc = "{}" -> Json("object", FALSE, "", FALSE, <<>>, FALSE, FALSE, 0)
    [] doc = "null" -> Primitive("null")
    [] doc = "42" -> Primitive("number")
    [] doc = "{\"items\":[{\"name\":\"Coffee\",\"quantity\":2,\"price\":\"3.50\"}],\"total\":7}"
         -> SuccessRecord(<<Item("Coffee", 2, FALSE, 0)>>, 700)
    [] doc = "{\"items\":[{\"name\":\"Coffee\",\"quantity\":2,\"price\":3.5}]}"
         -> Json("object", FALSE, "", TRUE, <<Coffee>>, FALSE, FALSE, 0)

IsWhitespace(token) == token \in {"\n", " "}

\* String.prototype.trim
trim(text) ==
  LET inner == {i \in 1..Len(text) : ~IsWhitespace(text[i])}
  IN IF inner = {} THEN <<>>
     ELSE SubSeq(text, CHOOSE i \in inner : \A j \in inner : i <= j,
                       CHOOSE i \in inner : \A j \in inner : j <= i)

\* text.replace(/[fence]json\n?/g, ""): scanning from position i, every fence
\* directly followed by "json" goes, with one line break after it if any.
RECURSIVE replaceJsonFence(_, _)
replaceJsonFence(text, i) ==
  IF i > Len(text) THEN <<>>
  ELSE IF text[i] = Fence /\ i < Len(text) /\ text[i + 1] = "json"
    THEN IF i + 2 <= Len(text) /\ text[i + 2] = "\n"
           THEN replaceJsonFence(text, i + 3)
           ELSE replaceJsonFence(text, i + 2)
  ELSE <<text[i]>> \o replaceJsonFence(text, i + 1)

\* text.replace(/[fence]\n?/g, "")
RECURSIVE replaceFence(_, _)
replaceFence(text, i) ==
  IF i > Len(text) THEN <<>>
  ELSE IF text[i] = Fence
    THEN IF i + 1 <= Len(text) /\ text[i + 1] = "\n"
           THEN replaceFence(text, i + 2)
           ELSE replaceFence(text, i + 1)
  ELSE <<text[i]>> \o replaceFence(text, i + 1)

\* let jsonText = text.trim(); jsonText = jsonText.replace(...).replace(...)
stripFences(text) == replaceFence(replaceJsonFence(trim(text), 1), 1)

\* JSON.parse accepts one document with white space around it and throws a
\* SyntaxError for anything else.
jsonParses(jsonText) ==
  /\ Len(trim(jsonText)) = 1
  /\ trim(jsonText)[1] \in JsonDocuments

JSONparse(jsonText) == jsonValueOf(trim(jsonText)[1])

\* The value analyzeReceipt returns when fs.readFile succeeded or not
\* (readOk), the model call succeeded or not (genOk) and the model answered
\* text: whatever JSON.parse yields, or the catch block's record.
analyzeReceipt(readOk, genOk, text) ==
  IF ~readOk
    THEN ErrorRecord("Failed to analyze receipt: " \o "ENOENT: no such file")
  ELSE IF ~genOk
    THEN ErrorRecord("Failed to analyze receipt: " \o "fetch failed")
  ELSE IF ~jsonParses(stripFences(text))
    THEN ErrorRecord("Failed to analyze receipt: " \o "Unexpected token")
  ELSE JSONparse(stripFences(text))

\* ------------------------------------------------ analyzeReceipt: actions

\* Longest model response, in tokens.
MaxTextLen == 3

Tokens == {Fence, "json", "\n", "Here is the JSON:"} \cup JsonDocuments

ModelTexts == UNION {[1..n -> Tokens] : n \in 0..MaxTextLen}

NoAnalysis == [returned |-> FALSE, value |-> Primitive("undefined")]

InitAnalyze ==
  /\ aiCall = [stage |-> "readFile", readOk |-> TRUE, genOk |-> TRUE,
               text |-> <<>>]
  /\ analysis = NoAnalysis

\* await fs.readFile(imagePath) settles.
ReadFileSettles ==
  /\ aiCall.stage = "readFile"
  /\ \E ok \in BOOLEAN :
       aiCall' = [aiCall EXCEPT !.readOk = ok,
                    !.stage = IF ok THEN "generateContent" ELSE "catch"]
  /\ UNCHANGED <<analysis, searchVars, msgVars>>

\* await model.generateContent(...) rejects, or response.text() throws.
GenerateContentFails ==
  /\ aiCall.stage = "generateContent"
  /\ aiCall' = [aiCall EXCEPT !.genOk = FALSE, !.stage = "catch"]
  /\ UNCHANGED <<analysis, searchVars, msgVars>>

\* await model.generateContent(...) and await result.response settle.
GenerateContentSettles ==
  /\ aiCall.stage = "generateContent"
  /\ \E t \in ModelTexts :
       aiCall' = [aiCall EXCEPT !.text = t, !.stage = "parse"]
  /\ UNCHANGED <<analysis, searchVars, msgVars>>

AnalyzeReceiptReturns ==
  /\ aiCall.stage \in {"catch", "parse"}
  /\ analysis' = [returned |-> TRUE,
                  value |-> analyzeReceipt(aiCall.readOk, aiCall.genOk,
                                           aiCall.text)]
  /\ aiCall' = [aiCall EXCEPT !.stage = "returned"]
  /\ UNCHANGED <<searchVars, msgVars>>

NextAnalyze ==
  \/ ReadFileSettles
  \/ GenerateContentFails
  \/ GenerateContentSettles
  \/ AnalyzeReceiptReturns

\* ------------------------------------------------------- handleMessage

\* maxConcurrent of the IMessageSDK configuration.
maxConcurrent == 5

\* The replies.  The emoji that open them in the source are left out.
StaticPrompt == <<"Please send me a receipt image to analyze!">>

TroubleNotice == <<"Sorry, I had trouble processing that receipt.">>

\* The template literal "Error: " + receiptData.error
ErrorReply(error) == <<"Error: ", error>>

\* Number.prototype.toFixed(2) of an amount given in cents.
toFixed2(cents) ==
  ToString(cents \div 100) \o "." \o
    (IF cents % 100 < 10 THEN "0" ELSE "") \o ToString(cents % 100)

\* The forEach of the receipt formatting throws (a TypeError from toFixed)
\* at an item whose price is not a number, and so does the total line when
\* total is missing or not a number.
formattingThrows(receiptData) ==
  /\ receiptData.hasItems
  /\ Len(receiptData.items) > 0
  /\ \/ \E k \in 1..Len(receiptData.items) : ~receiptData.items[k].priceIsNumber
     \/ ~receiptData.hasTotal
     \/ ~receiptData.totalIsNumber

itemLines(items) ==
  LET lines[k \in 0..Len(items)] ==
        IF k = 0 THEN <<>>
        ELSE lines[k - 1] \o
             <<ToString(k), ". ", items[k].name, "\n",
               "   Qty: ", ToString(items[k].quantity), " x $",
               toFixed2(items[k].price), "\n">>
  IN lines[Len(items)]

\* The response string the else branch builds.
receiptReply(receiptData) ==
  IF receiptData.hasItems /\ Len(receiptData.items) > 0
    THEN <<"Receipt Analysis:\n\n", "Items:\n">> \o itemLines(receiptData.items)
           \o <<"\nTotal: $", toFixed2(receiptData.total)>>
    ELSE <<"Receipt Analysis:\n\n", "No items found in receipt.">>

\* attachment.mimeType?.startsWith('image/')
isImage(attachment) ==
  /\ attachment.mimeType.defined
  /\ startsWith(attachment.mimeType.s, <<"i","m","a","g","e","/">>)

\* if (attachments): an empty array is truthy.
hasAttachmentsNoLength(message) == message.attachmentsDefined

\* if (attachments && attachments.length > 0)
hasAttachments(message) ==
  message.attachmentsDefined /\ Len(message.attachments) > 0

\* The recipient taken from whichever message was dispatched last: what a
\* module-level "current sender" would hold.
lastDispatchedSender(h) == handlers[Len(handlers)].sender

\* const { sender, text, attachments } = message: the recipient of every
\* send of invocation h is the sender of its own message.
recipient(h) == handlers[h].sender

Send(h, text, after) ==
  [to |-> recipient(h), text |-> text, after |-> after, outcome |-> "pending"]

\* The for loop from attachment i on, up to its next await: the call of
\* analyzeReceipt for the next image attachment, or the end of the function.
RECURSIVE nextImage(_, _)
nextImage(attachments, i) ==
  IF i > Len(attachments) THEN 0
  ELSE IF isImage(attachments[i]) THEN i
  ELSE nextImage(attachments, i + 1)

continueLoop(hd, i) ==
  LET n == nextImage(hd.attachments, i)
  IN IF n = 0 THEN [hd EXCEPT !.pc = "done", !.i = 0]
     ELSE [hd EXCEPT !.pc = "analyzeReceipt", !.i = n,
                     !.calls = Append(hd.calls, n)]

\* A new invocation of handleMessage(message), before it has run.
Invocation(message) ==
  [sender |-> message.sender, text |-> message.text,
   attachmentsDefined |-> message.attachmentsDefined,
   attachments |-> message.attachments,
   pc |-> "start", i |-> 0,
   calls |-> <<>>, results |-> <<>>, sends |-> <<>>]

\* Whether the access receiptData.error throws: it does on null.
errorAccessThrows(receiptData) == receiptData.type = "null"

\* if (receiptData.error): an absent or empty error is falsy.
errorTruthy(receiptData) == receiptData.hasError /\ receiptData.error # ""

\* ------------------------------------------------ handleMessage: inputs

\* Most messages handled in one run of the model.
MaxMessages == 2

\* Longest attachment list of a message.
MaxAttachments == 2

\* Most interrupt signals delivered.
MaxSignals == 2

Senders == {"alice", "bob"}

Texts == {Undefined, Str(<<>>), Str(<<"h","i">>)}

Attachment(mimeType, filename) ==
  [mimeType |-> mimeType, path |-> filename, filename |-> filename]

AttachmentPool ==
  { Attachment(Str(<<"i","m","a","g","e","/","j","p","e","g">>), "receipt.jpg"),
    Attachment(Str(<<"a","p","p","l","i","c","a","t","i","o","n","/","p","d","f">>),
               "doc.pdf"),
    Attachment(Undefined, "blob") }

AttachmentLists == UNION {[1..n -> AttachmentPool] : n \in 0..MaxAttachments}

\* The messages the watcher can observe: every non-empty attachment list
\* beside a text (which handleMessage then never reads), and, without
\* attachments (an empty list or no list at all), an absent, an empty and a
\* present text.
Messages ==
  {[sender |-> s, text |-> Str(<<"h","i">>), attachmentsDefined |-> TRUE,
    attachments |-> a] :
     s \in Senders, a \in AttachmentLists \ {<<>>}}
  \cup
  {[sender |-> s, text |-> t, attachmentsDefined |-> d, attachments |-> <<>>] :
     s \in Senders, t \in Texts, d \in BOOLEAN}

\* What one call of analyzeReceipt meets: whether readFile and the model
\* call succeed, and the text the model answers.
Scenario(readOk, genOk, text) == [readOk |-> readOk, genOk |-> genOk, text |-> text]

Scenarios ==
  { Scenario(TRUE, TRUE,
      <<Fence, "json", "\n",
        "{\"items\":[{\"name\":\"Coffee\",\"quantity\":2,\"price\":3.5}],\"total\":7}",
        "\n", Fence>>),
    Scenario(TRUE, TRUE, <<"{\"error\":\"Could not parse receipt\"}">>),
    Scenario(TRUE, TRUE, <<"null">>) }

\* ------------------------------------------------ handleMessage: actions

InitMsg ==
  /\ handlers = <<>>
  /\ watching = TRUE
  /\ sigintRegistered = FALSE
  /\ signals = 0
  /\ stopCalls = 0
  /\ closeCalls = 0
  /\ closePending = 0
  /\ proc = "running"

InFlight == {h \in 1..Len(handlers) : handlers[h].pc \notin {"done", "rejected"}}

\* The body of handleMessage(message) from its first line to its first
\* await, as invocation number h.
startHandler(h, message) ==
  LET hd == Invocation(message)
  IN IF hasAttachments(message) THEN continueLoop(hd, 1)
     ELSE IF Truthy(message.text)
       THEN [hd EXCEPT !.pc = "textSend",
                       !.sends = <<[to |-> message.sender, text |-> StaticPrompt,
                                    after |-> 0, outcome |-> "pending"]>>]
     ELSE [hd EXCEPT !.pc = "done"]

\* The watcher observes a new message and calls onNewMessage, which runs
\* handleMessage up to its first await.
Dispatch ==
  /\ proc = "running"
  /\ watching
  /\ Len(handlers) < MaxMessages
  /\ Cardinality(InFlight) < maxConcurrent
  /\ \E m \in Messages :
       handlers' = Append(handlers, startHandler(Len(handlers) + 1, m))
  /\ UNCHANGED <<watching, sigintRegistered, signals, stopCalls, closeCalls,
                 closePending, proc, searchVars, analyzeVars>>

\* Lines 97-124 after await analyzeReceipt(...) has returned receiptData, up
\* to the await of the send they make.
afterAnalysis(h, receiptData) ==
  LET hd == [handlers[h] EXCEPT !.results = Append(@, receiptData)]
      n == Len(hd.calls)
  IN IF errorAccessThrows(receiptData)
       THEN [hd EXCEPT !.pc = "catchSend",
                       !.sends = Append(@, Send(h, TroubleNotice, n))]
     ELSE IF errorTruthy(receiptData)
       THEN [hd EXCEPT !.pc = "send",
                       !.sends = Append(@, Send(h, ErrorReply(receiptData.error), n))]
     ELSE IF formattingThrows(receiptData)
       THEN [hd EXCEPT !.pc = "catchSend",
                       !.sends = Append(@, Send(h, TroubleNotice, n))]
     ELSE [hd EXCEPT !.pc = "send",
                     !.sends = Append(@, Send(h, receiptReply(receiptData), n))]

\* await analyzeReceipt(attachment.path) settles.
AnalyzeReceiptSettles(h) ==
  /\ proc = "running"
  /\ handlers[h].pc = "analyzeReceipt"
  /\ \E sc \in Scenarios :
       handlers' = [handlers EXCEPT ![h] =
                      afterAnalysis(h, analyzeReceipt(sc.readOk, sc.genOk, sc.text))]
  /\ UNCHANGED <<watching, sigintRegistered, signals, stopCalls, closeCalls,
                 closePending, proc, searchVars, analyzeVars>>

settleLast(hd, outcome) ==
  [hd EXCEPT !.sends[Len(hd.sends)].outcome = outcome]

\* The code after an await sdk.send(...) that fulfilled.
afterSendOk(h) ==
  LET hd == settleLast(handlers[h], "ok")
  IN IF hd.pc = "textSend" THEN [hd EXCEPT !.pc = "done"]
     ELSE continueLoop(hd, hd.i + 1)

\* The code after an await sdk.send(...) that rejected: inside the try block
\* the catch block sends the trouble notice; in the catch block and in the
\* text branch the rejection leaves handleMessage.
afterSendFailed(h) ==
  LET hd == settleLast(handlers[h], "failed")
  IN IF hd.pc = "send"
       THEN [hd EXCEPT !.pc = "catchSend",
                       !.sends = Append(@, Send(h, TroubleNotice, Len(hd.calls)))]
     ELSE [hd EXCEPT !.pc = "rejected"]

\* await sdk.send(sender, ...) fulfils.
SendFulfils(h) ==
  /\ proc = "running"
  /\ handlers[h].pc \in {"send", "catchSend", "textSend"}
  /\ handlers' = [handlers EXCEPT ![h] = afterSendOk(h)]
  /\ UNCHANGED <<watching, sigintRegistered, signals, stopCalls, closeCalls,
                 closePending, proc, searchVars, analyzeVars>>

\* await sdk.send(sender, ...) rejects (the messaging application is not
\* running).
SendRejects(h) ==
  /\ proc = "running"
  /\ handlers[h].pc \in {"send", "catchSend", "textSend"}
  /\ handlers' = [handlers EXCEPT ![h] = afterSendFailed(h)]
  /\ UNCHANGED <<watching, sigintRegistered, signals, stopCalls, closeCalls,
                 closePending, proc, searchVars, analyzeVars>>

\* await sdk.startWatching(...) fulfils and the script goes on to
\* process.on('SIGINT', ...).
StartWatchingReturns ==
  /\ proc = "running"
  /\ ~sigintRegistered
  /\ sigintRegistered' = TRUE
  /\ UNCHANGED <<handlers, watching, signals, stopCalls, closeCalls,
                 closePending, proc, searchVars, analyzeVars>>

\* An interrupt signal before the listener is registered: the default
\* disposition ends the process.
SigintDefault ==
  /\ proc = "running"
  /\ ~sigintRegistered
  /\ signals < MaxSignals
  /\ signals' = signals + 1
  /\ proc' = "killed"
  /\ UNCHANGED <<handlers, watching, sigintRegistered, stopCalls, closeCalls,
                 closePending, searchVars, analyzeVars>>

\* The SIGINT listener up to its await: sdk.stopWatching(), then the call of
\* sdk.close().
SigintHandler ==
  /\ proc = "running"
  /\ sigintRegistered
  /\ signals < MaxSignals
  /\ signals' = signals + 1
  /\ stopCalls' = stopCalls + 1
  /\ watching' = FALSE
  /\ closeCalls' = closeCalls + 1
  /\ closePending' = closePending + 1
  /\ UNCHANGED <<handlers, sigintRegistered, proc, searchVars, analyzeVars>>

\* await sdk.close() fulfils; process.exit(0).
CloseReturns ==
  /\ proc = "running"
  /\ closePending > 0
  /\ closePending' = closePending - 1
  /\ proc' = "exited"
  /\ UNCHANGED <<handlers, watching, sigintRegistered, signals, stopCalls,
                 closeCalls, searchVars, analyzeVars>>

Init == InitSearch /\ InitAnalyze /\ InitMsg

NextMsg ==
  \/ Dispatch
  \/ \E h \in 1..Len(handlers) : AnalyzeReceiptSettles(h)
  \/ \E h \in 1..Len(handlers) : SendFulfils(h)
  \/ \E h \in 1..Len(handlers) : SendRejects(h)
  \/ StartWatchingReturns
  \/ SigintDefault
  \/ SigintHandler
  \/ CloseReturns

Spec == Init /\ [][NextMsg]_vars

SpecAnalyze == Init /\ [][NextAnalyze]_vars

\* ------------------------------------------------ search pipeline: spec

NextSearch ==
  \/ WebSearchSettles
  \/ SearchNearbyPlacesReturns
  \/ FindCheaperNearbySpotsReturns

SpecSearch == Init /\ [][NextSearch]_vars

\* ------------------------------------------------ search pipeline: claims

Min(a, b) == IF a < b THEN a ELSE b

\* The provider answered with a list (it neither threw nor returned null).
ProviderGaveList ==
  searchResults.settled /\ ~searchResults.threw /\ ~searchResults.isNull

DenseRanks(ranked, n) ==
  /\ Len(ranked) = Min(3, n)
  /\ \A i \in 1..Len(ranked) : ranked[i].rank = i

\* C1: for every provider result list of length n, spots (plain mode) and
\* alternatives (affordability mode) have exactly min(3, n) entries and the
\* entry at position i has rank i.
C1_RankedLengthAndRanks ==
  ProviderGaveList =>
    /\ plainOut # PlainNotRun =>
         DenseRanks(plainOut.spots, Len(searchResults.list))
    /\ affordOut # AffordNotRun =>
         DenseRanks(affordOut.alternatives, Len(searchResults.list))

\* Both modes have answered a list longer than three and one shorter than
\* three has been answered too (the witness is the longer one).
C1_Witness ==
  /\ ProviderGaveList
  /\ Len(searchResults.list) = 4
  /\ Len(plainOut.spots) = 3
  /\ Len(affordOut.alternatives) = 3
  /\ affordOut.alternatives[3].rank = 3
  /\ plainOut.spots[3].rank = 3

\* Result a of the provider's list goes before result b in a stable
\* descending sort by the scores findCheaperNearbySpots computed (C3 says
\* what they are).
RanksBefore(list, a, b) ==
  \/ scored[a].affordabilityScore > scored[b].affordabilityScore
  \/ /\ scored[a].affordabilityScore = scored[b].affordabilityScore
     /\ a < b

\* ranked is the first three entries of list stably sorted by descending
\* score: some choice p of distinct positions of list yields ranked, every
\* chosen position goes before the ones chosen after it and before every
\* position left out.
IsStableTop3(list, ranked) ==
  /\ Len(ranked) = Min(3, Len(list))
  /\ \E p \in [1..Len(ranked) -> 1..Len(list)] :
       /\ \A i, j \in 1..Len(ranked) : i # j => p[i] # p[j]
       /\ \A i \in 1..Len(ranked) :
            /\ ranked[i].name = list[p[i]].title
            /\ ranked[i].url = list[p[i]].url
            /\ ranked[i].description =
                 OrElse(list[p[i]].snippet, list[p[i]].description)
       /\ \A i, j \in 1..Len(ranked) :
            i < j => RanksBefore(list, p[i], p[j])
       /\ \A i \in 1..Len(ranked) :
            \A k \in 1..Len(list) :
              (\A j \in 1..Len(ranked) : p[j] # k) =>
                RanksBefore(list, p[i], k)

\* C2: the alternatives are the first three provider results in a stable
\* sort by descending affordability score: equal scores keep the provider's
\* order, and no result is left out in favour of a later one with an equal
\* or lower score.
C2_StableTop3 ==
  (ProviderGaveList /\ affordOut # AffordNotRun) =>
    /\ Len(scored) = Len(searchResults.list)
    /\ IsStableTop3(searchResults.list, affordOut.alternatives)

\* Four distinct results; the second and the fourth score the same (2) and
\* both are ranked, in the provider's order, ahead of the first (score 0);
\* the third (score 0) ties with the first and is the one left out.
C2_Witness ==
  /\ ProviderGaveList
  /\ Len(searchResults.list) = 4
  /\ searchResults.list[1].url = "u3"
  /\ searchResults.list[2].url = "u6"
  /\ searchResults.list[3].url = "u7"
  /\ searchResults.list[4].url = "u4"
  /\ Len(affordOut.alternatives) = 3
  /\ affordOut.alternatives[1].url = "u6"
  /\ affordOut.alternatives[2].url = "u4"
  /\ affordOut.alternatives[3].url = "u3"

\* The keyword occurs in text: text is a \o keyword \o b for some a and b.
Occurs(keyword, text) ==
  \E n \in 0..Len(text) :
    /\ n + Len(keyword) <= Len(text)
    /\ \A i \in 1..Len(keyword) : text[n + i] = keyword[i]

KeywordSet(keywords) == {keywords[j] : j \in 1..Len(keywords)}

\* 2 * (distinct affordable keywords occurring) - 3 * (distinct expensive
\* keywords occurring).
PresenceScore(result) ==
  2 * Cardinality({k \in KeywordSet(affordableKeywords) :
                     Occurs(k, scoreText(result))})
  - 3 * Cardinality({k \in KeywordSet(expensiveKeywords) :
                       Occurs(k, scoreText(result))})

\* The provider's list is the spec's example: Luxury Cafe, Budget Diner $5
\* meals, Corner Store.
IsSpecExample(list) ==
  /\ Len(list) = 3
  /\ list[1].title = LuxuryCafe /\ ~Truthy(list[1].snippet)
  /\ ~Truthy(list[1].description)
  /\ list[2].title = BudgetDiner /\ ~Truthy(list[2].snippet)
  /\ ~Truthy(list[2].description)
  /\ list[3].title = CornerStore /\ ~Truthy(list[3].snippet)
  /\ ~Truthy(list[3].description)

\* PresenceScore of each result the provider draws from.
PresenceScoreOfPool == [r \in ResultPool |-> PresenceScore(r)]

\* C3: the score of every result is 2 per distinct affordable keyword present
\* minus 3 per distinct expensive keyword present (presence, not frequency;
\* 0 without keywords; possibly negative), and the example titles score
\* 4, 0 and -3 and are ranked Budget Diner, Corner Store, Luxury Cafe.
C3_PresenceScore ==
  (ProviderGaveList /\ affordOut # AffordNotRun) =>
    /\ Len(scored) = Len(searchResults.list)
    /\ \A i \in 1..Len(scored) :
         scored[i].affordabilityScore = PresenceScoreOfPool[searchResults.list[i]]
    /\ IsSpecExample(searchResults.list) =>
         /\ scored[1].affordabilityScore = -3
         /\ scored[2].affordabilityScore = 4
         /\ scored[3].affordabilityScore = 0
         /\ affordOut.alternatives[1].name = BudgetDiner
         /\ affordOut.alternatives[2].name = CornerStore
         /\ affordOut.alternatives[3].name = LuxuryCafe

\* The example has been ranked, and so has a list with a repeated keyword
\* (score 2, not 4), which is where presence and frequency differ.
C3_Witness ==
  /\ ProviderGaveList
  /\ affordOut # AffordNotRun
  /\ IsSpecExample(searchResults.list)
  /\ scored[2].affordabilityScore = 4

\* A repeated keyword counts once: "CHEAP cheap eats" scores 2; a keyword
\* inside another counts too: "Inexpensive Deli" scores 2 - 3.
C3_WitnessRepeated ==
  /\ ProviderGaveList
  /\ Len(scored) = 2
  /\ searchResults.list[1].url = "u4" /\ scored[1].affordabilityScore = 2
  /\ searchResults.list[2].url = "u5" /\ scored[2].affordabilityScore = -1

\* ------------------------------------------------ analyzeReceipt: claims

\* { items, total } and no error field.
IsSuccessRecord(v) ==
  v.type = "object" /\ v.hasItems /\ v.hasTotal /\ ~v.hasError

\* { error } and neither items nor total.
IsErrorRecord(v) ==
  v.type = "object" /\ v.hasError /\ ~v.hasItems /\ ~v.hasTotal

\* C9: whatever the model answers and whichever call fails, analyzeReceipt
\* returns (it never throws) and what it returns is either a success record
\* or an error record, never both and never neither.
C9_SuccessOrErrorRecord ==
  analysis.returned =>
    /\ analysis.value.type # "thrown"
    /\ IsSuccessRecord(analysis.value) \/ IsErrorRecord(analysis.value)
    /\ ~(analysis.value.hasError
           /\ (analysis.value.hasItems \/ analysis.value.hasTotal))

\* ------------------------------------------------ handleMessage: claims

Finished(hd) == hd.pc \in {"done", "rejected"}

\* The MIME type starts with "image/".
MimeIsImage(attachment) ==
  /\ attachment.mimeType.defined
  /\ Len(attachment.mimeType.s) >= 6
  /\ \A c \in 1..6 : attachment.mimeType.s[c] = <<"i","m","a","g","e","/">>[c]

ImagePositions(hd) ==
  {i \in 1..Len(hd.attachments) : MimeIsImage(hd.attachments[i])}

\* The positions of the image attachments that precede position i.
ImagesBefore(hd, i) == {j \in ImagePositions(hd) : j < i}

\* The message has text and no attachments.
TextOnly(hd) ==
  /\ hd.text.defined /\ hd.text.s # <<>>
  /\ Len(hd.attachments) = 0

\* C4: a message with exactly one image attachment whose analysis returns an
\* error record (with a non-empty error text) gets exactly one send, whose
\* text contains the error text, and no receipt formatting.
C4_OneErrorReply ==
  \A h \in 1..Len(handlers) :
    LET hd == handlers[h]
    IN (/\ Cardinality(ImagePositions(hd)) = 1
        /\ Len(hd.results) = 1
        /\ IsErrorRecord(hd.results[1])
        /\ hd.results[1].error # "")
       => /\ Len(hd.sends) = 1
          /\ \E t \in 1..Len(hd.sends[1].text) :
               hd.sends[1].text[t] = hd.results[1].error
          /\ hd.sends[1].text[1] # "Receipt Analysis:\n\n"

\* C6: with k image attachments analyzeReceipt is called k times, in
\* attachment order, and each call is followed by exactly one send, made
\* after that call and before the next one; other attachments cause neither.
C6_OneAnalysisAndReplyPerImage ==
  \A h \in 1..Len(handlers) :
    LET hd == handlers[h]
        k == Cardinality(ImagePositions(hd))
    IN Len(hd.attachments) > 0 =>
         /\ Len(hd.calls) <= k
         /\ \A c \in 1..Len(hd.calls) :
              /\ hd.calls[c] \in ImagePositions(hd)
              /\ Cardinality(ImagesBefore(hd, hd.calls[c])) = c - 1
         /\ Len(hd.sends) <= Len(hd.calls)
         /\ \A j \in 1..Len(hd.sends) : hd.sends[j].after = j
         /\ Finished(hd) => Len(hd.calls) = k /\ Len(hd.sends) = k

\* C7: a failing send never leaves handleMessage as a rejection.
C7_SendFailureContained ==
  \A h \in 1..Len(handlers) : handlers[h].pc # "rejected"

\* C8: on the interrupt signal stopWatching comes first, then close, then
\* the exit; whatever signals arrive, close is called exactly once.
C8_OrderlyShutdownCloseOnce ==
  /\ closeCalls <= 1
  /\ closeCalls > 0 => (stopCalls > 0 /\ ~watching)
  /\ proc = "exited" => closeCalls = 1

\* C5: a message with text and no attachments gets exactly one send, the
\* static prompt, addressed to its sender, and no call of analyzeReceipt.
C5_TextOnlyGetsPrompt ==
  \A h \in 1..Len(handlers) :
    LET hd == handlers[h]
    IN TextOnly(hd) =>
         /\ hd.calls = <<>>
         /\ Len(hd.sends) = 1
         /\ hd.sends[1].text = StaticPrompt
         /\ hd.sends[1].to = hd.sender

\* A text-only message with an empty attachment list has been answered with
\* the prompt, and the send has fulfilled.
C5_Witness ==
  \E h \in 1..Len(handlers) :
    /\ TextOnly(handlers[h])
    /\ handlers[h].attachmentsDefined
    /\ handlers[h].pc = "done"
    /\ Len(handlers[h].sends) = 1
    /\ handlers[h].sends[1].outcome = "ok"

\* handleMessage run alone, as a function of the message (hd), the values
\* its calls of analyzeReceipt returned (hd.results) and the outcomes of its
\* sends (hd.sends[..].outcome): the texts it sends from attachment i on,
\* having consumed r results and o outcomes, and how it ends.
RECURSIVE AloneFrom(_, _, _, _, _)
AloneFrom(hd, i, r, o, acc) ==
  IF i > Len(hd.attachments) THEN [texts |-> acc, pc |-> "done"]
  ELSE IF ~MimeIsImage(hd.attachments[i]) THEN AloneFrom(hd, i + 1, r, o, acc)
  ELSE IF r >= Len(hd.results) THEN [texts |-> acc, pc |-> "analyzeReceipt"]
  ELSE
    LET rd == hd.results[r + 1]
        inCatch == rd.type = "null"
                     \/ (~(rd.hasError /\ rd.error # "") /\ formattingThrows(rd))
        first == IF inCatch THEN TroubleNotice
                 ELSE IF rd.hasError /\ rd.error # "" THEN <<"Error: ", rd.error>>
                 ELSE receiptReply(rd)
        acc1 == Append(acc, first)
        out1 == IF o + 1 <= Len(hd.sends) THEN hd.sends[o + 1].outcome
                ELSE "pending"
        out2 == IF o + 2 <= Len(hd.sends) THEN hd.sends[o + 2].outcome
                ELSE "pending"
    IN IF out1 = "pending"
         THEN [texts |-> acc1, pc |-> IF inCatch THEN "catchSend" ELSE "send"]
       ELSE IF out1 = "ok" THEN AloneFrom(hd, i + 1, r + 1, o + 1, acc1)
       ELSE IF inCatch THEN [texts |-> acc1, pc |-> "rejected"]
       ELSE IF out2 = "pending"
         THEN [texts |-> Append(acc1, TroubleNotice), pc |-> "catchSend"]
       ELSE IF out2 = "ok"
         THEN AloneFrom(hd, i + 1, r + 1, o + 2, Append(acc1, TroubleNotice))
       ELSE [texts |-> Append(acc1, TroubleNotice), pc |-> "rejected"]

HandledAlone(hd) ==
  IF Len(hd.attachments) > 0 THEN AloneFrom(hd, 1, 0, 0, <<>>)
  ELSE IF hd.text.defined /\ hd.text.s # <<>>
    THEN [texts |-> <<StaticPrompt>>,
          pc |-> IF hd.sends = <<>> \/ hd.sends[1].outcome = "pending"
                   THEN "textSend"
                 ELSE IF hd.sends[1].outcome = "ok" THEN "done" ELSE "rejected"]
  ELSE [texts |-> <<>>, pc |-> "done"]

\* C10: with invocations interleaving at their awaits, every send of an
\* invocation is addressed to the sender of its own message, and the texts it
\* sends and the way it ends are those of the same message handled alone.
C10_HandlersIndependent ==
  \A h \in 1..Len(handlers) :
    LET hd == handlers[h]
        alone == HandledAlone(hd)
    IN /\ \A j \in 1..Len(hd.sends) : hd.sends[j].to = hd.sender
       /\ Len(hd.sends) = Len(alone.texts)
       /\ \A j \in 1..Len(hd.sends) : hd.sends[j].text = alone.texts[j]
       /\ hd.pc = alone.pc

\* Two invocations for different senders, both past an analysis, interleaved:
\* the second was dispatched before the first finished, and both have sent.
C10_Witness ==
  /\ Len(handlers) = 2
  /\ handlers[1].sender # handlers[2].sender
  /\ handlers[1].pc = "send" /\ Len(handlers[1].sends) = 2
  /\ handlers[2].pc = "catchSend" /\ Len(handlers[2].sends) = 2
  /\ handlers[2].sends[1].outcome = "failed"
=============================================================================
